---------------------------- MODULE Spec2Model ----------------------------
(***************************************************************************)
(* A model of the in-memory key-value server: the RESP codec (resp.rs),    *)
(* the storage engine with lazy expiry (storage.rs), the per-connection    *)
(* driver and command dispatcher, and the replication handshake (main.rs). *)
(*                                                                         *)
(* Bytes are one-character strings (ASCII); Rust's Option<T> is a sequence *)
(* of length 0 (None) or 1 (Some(x)); a Rust panic is an explicit outcome. *)
(***************************************************************************)
EXTENDS Integers, Sequences, FiniteSets, TLC

(***************************************************************************)
(* Bounds of the model.                                                    *)
(***************************************************************************)
\* longest Array drawn as a codec input
MaxArrayLen == 2
\* the clock stops advancing at this many half-millisecond ticks
MaxTime == 6
\* largest TTL (milliseconds) given to Storage::set in the storage model
MaxTtl == 2
\* requests a client sends on its connection
MaxRequests == 2
\* most bytes of a request that a client holds back for a second segment
MaxTail == 4
\* client connections the follower's listener loop accepts
MaxAccepted == 1
\* clock ticks per millisecond (the resolution of the modelled clock)
TicksPerMs == 2

(***************************************************************************)
(* Rust's Option.                                                          *)
(***************************************************************************)
None == <<>>
Some(x) == <<x>>
IsSome(o) == Len(o) = 1
Unwrap(o) == o[1]

(***************************************************************************)
(* Byte strings, slices, decimal formatting and parsing.                   *)
(***************************************************************************)
CR == "\r"
LF == "\n"
CRLF == <<CR, LF>>

Digits == <<"0", "1", "2", "3", "4", "5", "6", "7", "8", "9">>

IsDigit(c) == \E d \in 1..10 : Digits[d] = c

DigitVal(c) == (CHOOSE d \in 1..10 : Digits[d] = c) - 1

\* Rust's  &buffer[a..b]  (0-based, end exclusive); it panics unless SliceOk.
SliceOk(s, a, b) == a <= b /\ b <= Len(s)
Slice(s, a, b) == SubSeq(s, a + 1, b)
\* Rust's  &buffer[a..]
SliceFrom(s, a) == SubSeq(s, a + 1, Len(s))

RECURSIVE FormatNat(_)
FormatNat(n) ==
    IF n < 10 THEN <<Digits[n + 1]>>
    ELSE FormatNat(n \div 10) \o <<Digits[(n % 10) + 1]>>

\* format!("{}", n) of an integer
Format(n) == IF n < 0 THEN <<"-">> \o FormatNat(-n) ELSE FormatNat(n)

RECURSIVE DigitsValue(_, _)
DigitsValue(s, acc) ==
    IF s = <<>> THEN acc
    ELSE DigitsValue(Tail(s), 10 * acc + DigitVal(Head(s)))

AllDigits(s) == s # <<>> /\ \A j \in 1..Len(s) : IsDigit(s[j])

\* str::parse::<i64>(): an optional sign, then one or more digits
ParseI64(s) ==
    IF s # <<>> /\ Head(s) \in {"+", "-"}
    THEN IF AllDigits(Tail(s))
         THEN [ok |-> TRUE,
               val |-> IF Head(s) = "-" THEN 0 - DigitsValue(Tail(s), 0)
                       ELSE DigitsValue(Tail(s), 0)]
         ELSE [ok |-> FALSE, val |-> 0]
    ELSE IF AllDigits(s) THEN [ok |-> TRUE, val |-> DigitsValue(s, 0)]
         ELSE [ok |-> FALSE, val |-> 0]

\* str::parse::<usize>(): an optional "+", then one or more digits; no "-"
ParseUsize(s) ==
    IF s # <<>> /\ Head(s) = "+"
    THEN IF AllDigits(Tail(s)) THEN [ok |-> TRUE, val |-> DigitsValue(Tail(s), 0)]
         ELSE [ok |-> FALSE, val |-> 0]
    ELSE IF AllDigits(s) THEN [ok |-> TRUE, val |-> DigitsValue(s, 0)]
         ELSE [ok |-> FALSE, val |-> 0]

LowerOf(c) ==
    CASE c = "A" -> "a" [] c = "B" -> "b" [] c = "C" -> "c" [] c = "D" -> "d"
      [] c = "E" -> "e" [] c = "F" -> "f" [] c = "G" -> "g" [] c = "H" -> "h"
      [] c = "I" -> "i" [] c = "J" -> "j" [] c = "K" -> "k" [] c = "L" -> "l"
      [] c = "M" -> "m" [] c = "N" -> "n" [] c = "O" -> "o" [] c = "P" -> "p"
      [] c = "Q" -> "q" [] c = "R" -> "r" [] c = "S" -> "s" [] c = "T" -> "t"
      [] c = "U" -> "u" [] c = "V" -> "v" [] c = "W" -> "w" [] c = "X" -> "x"
      [] c = "Y" -> "y" [] c = "Z" -> "z" [] OTHER -> c

\* str::to_lowercase / to_ascii_lowercase on ASCII text
ToLower(s) == [j \in 1..Len(s) |-> LowerOf(s[j])]

(***************************************************************************)
(* RespValue and RespValue::to_bytes.                                      *)
(***************************************************************************)
SimpleString(s) == [t |-> "SimpleString", s |-> s, i |-> 0, b |-> None, a |-> <<>>]
Error(s) == [t |-> "Error", s |-> s, i |-> 0, b |-> None, a |-> <<>>]
Integer(i) == [t |-> "Integer", s |-> <<>>, i |-> i, b |-> None, a |-> <<>>]
BulkString(b) == [t |-> "BulkString", s |-> <<>>, i |-> 0, b |-> b, a |-> <<>>]
Array(a) == [t |-> "Array", s |-> <<>>, i |-> 0, b |-> None, a |-> a]

RECURSIVE to_bytes(_)
RECURSIVE ConcatBytes(_)
ConcatBytes(vs) ==
    IF vs = <<>> THEN <<>> ELSE to_bytes(Head(vs)) \o ConcatBytes(Tail(vs))

to_bytes(v) ==
    CASE v.t = "SimpleString" -> <<"+">> \o v.s \o CRLF
      [] v.t = "Error" -> <<"-">> \o v.s \o CRLF
      [] v.t = "Integer" -> <<":">> \o Format(v.i) \o CRLF
      [] v.t = "BulkString" /\ IsSome(v.b) ->
            <<"$">> \o Format(Len(Unwrap(v.b))) \o CRLF \o Unwrap(v.b) \o CRLF
      [] v.t = "BulkString" /\ ~IsSome(v.b) -> <<"$", "-", "1", CR, LF>>
      [] v.t = "Array" -> <<"*">> \o Format(Len(v.a)) \o CRLF \o ConcatBytes(v.a)

(***************************************************************************)
(* The decoder: parse_single and the per-type parsers.  An outcome is      *)
(* Ok(value, len), Err(message) or a panic.                                *)
(***************************************************************************)
NoValue == SimpleString(<<>>)
Ok(v, n) == [k |-> "Ok", v |-> v, len |-> n, msg |-> ""]
Err(m) == [k |-> "Err", v |-> NoValue, len |-> 0, msg |-> m]
Panic == [k |-> "Panic", v |-> NoValue, len |-> 0, msg |-> ""]

CrlfPositions(buffer) ==
    {p \in 0..(Len(buffer) - 2) : buffer[p + 1] = CR /\ buffer[p + 2] = LF}

Min(S) == CHOOSE x \in S : \A y \in S : x <= y

\* Some((line, pos + 2)) at the first CR LF, else None
read_until_crlf(buffer) ==
    IF CrlfPositions(buffer) = {} THEN None
    ELSE LET pos == Min(CrlfPositions(buffer))
         IN Some([line |-> Slice(buffer, 0, pos), len |-> pos + 2])

parse_simple_string(buffer) ==
    LET r == read_until_crlf(buffer)
    IN IF ~IsSome(r) THEN Err("incomplete response")
       ELSE LET line == Unwrap(r).line
                len == Unwrap(r).len
            IN IF ~SliceOk(line, 1, len - 2) THEN Panic
               ELSE Ok(SimpleString(Slice(line, 1, len - 2)), len)

parse_error(buffer) ==
    LET r == read_until_crlf(buffer)
    IN IF ~IsSome(r) THEN Err("incomplete response")
       ELSE LET line == Unwrap(r).line
                len == Unwrap(r).len
            IN IF ~SliceOk(line, 1, len - 2) THEN Panic
               ELSE Ok(Error(Slice(line, 1, len - 2)), len)

parse_integer(buffer) ==
    LET r == read_until_crlf(buffer)
    IN IF ~IsSome(r) THEN Err("incomplete response")
       ELSE LET line == Unwrap(r).line
                len == Unwrap(r).len
            IN IF ~SliceOk(line, 1, len - 2) THEN Panic
               ELSE LET i == ParseI64(Slice(line, 1, len - 2))
                    IN IF i.ok THEN Ok(Integer(i.val), len)
                       ELSE Err("invalid digit found in string")

\* A declared length below -1 makes total_len overflow (a panic in a debug
\* build) or wrap below len (the slice then panics): a panic either way.
parse_bulk_string(buffer) ==
    LET r == read_until_crlf(buffer)
    IN IF ~IsSome(r) THEN Err("incomplete response")
       ELSE LET line == Unwrap(r).line
                len == Unwrap(r).len
                n == ParseI64(Slice(line, 0, len - 2))
                total_len == len + n.val
            IN IF ~n.ok THEN Err("invalid digit found in string")
               ELSE IF n.val = -1 THEN Ok(BulkString(None), len)
               ELSE IF n.val < 0 THEN Panic
               ELSE IF Len(buffer) < total_len THEN Err("incomplete response")
               ELSE Ok(BulkString(Some(Slice(buffer, len, total_len))), total_len + 1)

RECURSIVE parse_single(_)
RECURSIVE ParseArrayLoop(_, _, _, _)
\* the for loop of parse_array: `left` iterations remain
ParseArrayLoop(left, buf, array, total_len) ==
    IF left <= 0 THEN Ok(Array(array), total_len)
    ELSE LET r == parse_single(buf)
         IN IF r.k # "Ok" THEN r
            ELSE IF r.len + 2 > Len(buf) THEN Panic
            ELSE ParseArrayLoop(left - 1, SliceFrom(buf, r.len + 2),
                                Append(array, r.v), total_len + r.len + 2)

parse_array(buffer) ==
    LET r == read_until_crlf(buffer)
    IN IF ~IsSome(r) THEN Err("incomplete response")
       ELSE LET line == Unwrap(r).line
                len == Unwrap(r).len
                n == ParseI64(Slice(line, 0, len - 2))
            IN IF ~n.ok THEN Err("invalid digit found in string")
               ELSE IF n.val = -1 THEN Ok(Array(<<>>), len)
               ELSE ParseArrayLoop(n.val, SliceFrom(buffer, len), <<>>, len)

\* buffer[0] panics on an empty buffer.  (The println! at the top unwraps
\* from_utf8 of the buffer; the bytes of this model are ASCII.)
parse_single(buffer) ==
    IF buffer = <<>> THEN Panic
    ELSE CASE buffer[1] = "+" -> parse_simple_string(SliceFrom(buffer, 1))
           [] buffer[1] = "-" -> parse_error(SliceFrom(buffer, 1))
           [] buffer[1] = ":" -> parse_integer(SliceFrom(buffer, 1))
           [] buffer[1] = "$" -> parse_bulk_string(SliceFrom(buffer, 1))
           [] buffer[1] = "*" -> parse_array(SliceFrom(buffer, 1))
           [] OTHER -> Err("invalid response")

(***************************************************************************)
(* The byte strings the program and its peers use.                         *)
(***************************************************************************)
B(s) == BulkString(Some(s))

\* the byte-string literals of main.rs and the command words of its clients
Lit ==
    [PONG |-> <<"P", "O", "N", "G">>,
     OK |-> <<"O", "K">>,
     ping |-> <<"p", "i", "n", "g">>,
     echo |-> <<"e", "c", "h", "o">>,
     set |-> <<"s", "e", "t">>,
     get |-> <<"g", "e", "t">>,
     info |-> <<"i", "n", "f", "o">>,
     replconf |-> <<"r", "e", "p", "l", "c", "o", "n", "f">>,
     psync |-> <<"p", "s", "y", "n", "c">>,
     px |-> <<"p", "x">>,
     replication |-> <<"r", "e", "p", "l", "i", "c", "a", "t", "i", "o", "n">>,
     unknown_argument |-> <<"u", "n", "k", "n", "o", "w", "n", " ", "a", "r", "g", "u",
             "m", "e", "n", "t">>,
     wrong_number |-> <<"w", "r", "o", "n", "g", " ", "n", "u", "m", "b", "e", "r", " ",
             "o", "f", " ", "a", "r", "g", "u", "m", "e", "n", "t", "s">>,
     unknown_command |-> <<"u", "n", "k", "n", "o", "w", "n", " ", "c", "o", "m", "m",
             "a", "n", "d">>,
     expected_bulk |-> <<"E", "x", "p", "e", "c", "t", "e", "d", " ", "b", "u", "l", "k",
             " ", "s", "t", "r", "i", "n", "g">>,
     expected_array |-> <<"E", "x", "p", "e", "c", "t", "e", "d", " ", "a", "r", "r",
             "a", "y">>,
     server_banner |-> <<"#", " ", "S", "e", "r", "v", "e", "r", "\n", "v", "e", "r",
             "s", "i", "o", "n", ":", "0", ".", "0", ".", "1", "\n">>,
     master |-> <<"m", "a", "s", "t", "e", "r">>,
     slave |-> <<"s", "l", "a", "v", "e">>,
     repl_head |-> <<"#", " ", "R", "e", "p", "l", "i", "c", "a", "t", "i", "o", "n",
             "\n", "r", "o", "l", "e", ":">>,
     repl_tail |-> <<"\n", "m", "a", "s", "t", "e", "r", "_", "r", "e", "p", "l", "i",
             "d", ":", "8", "3", "7", "1", "b", "4", "f", "b", "1", "1", "5", "5", "b",
             "7", "1", "f", "4", "a", "0", "4", "d", "3", "e", "1", "b", "c", "3", "e",
             "1", "8", "c", "4", "a", "9", "9", "0", "a", "e", "e", "b", "\n", "m", "a",
             "s", "t", "e", "r", "_", "r", "e", "p", "l", "_", "o", "f", "f", "s", "e",
             "t", ":", "0", "\n">>,
     fullresync |-> <<"+", "F", "U", "L", "L", "R", "E", "S", "Y", "N", "C", " ", "8",
             "3", "7", "1", "b", "4", "f", "b", "1", "1", "5", "5", "b", "7", "1", "f",
             "4", "a", "0", "4", "d", "3", "e", "1", "b", "c", "3", "e", "1", "8", "c",
             "4", "a", "9", "9", "0", "a", "e", "e", "b", " ", "0", "\n">>,
     q |-> <<"?">>,
     minus1 |-> <<"-", "1">>,
     capa |-> <<"c", "a", "p", "a">>,
     psync2 |-> <<"p", "s", "y", "n", "c", "2">>,
     listening_port |-> <<"l", "i", "s", "t", "e", "n", "i", "n", "g", "-", "p", "o",
             "r", "t">>,
     PING |-> <<"P", "I", "N", "G">>,
     ECHO |-> <<"E", "C", "H", "O">>,
     SET |-> <<"S", "E", "T">>,
     GET |-> <<"G", "E", "T">>,
     INFO |-> <<"I", "N", "F", "O">>,
     REPLCONF |-> <<"R", "E", "P", "L", "C", "O", "N", "F">>,
     PSYNC |-> <<"P", "S", "Y", "N", "C">>,
     PX |-> <<"P", "X">>]

hardcoded_empty_rdb_file_hex ==
    <<
       "5", "2", "4", "5", "4", "4", "4", "9", "5", "3", "3", "0", "3", "0", "3", "1", "3", "1", "f", "a", "0", "9",
       "7", "2", "6", "5", "6", "4", "6", "9", "7", "3", "2", "d", "7", "6", "6", "5", "7", "2", "0", "5", "3", "7",
       "2", "e", "3", "2", "2", "e", "3", "0", "f", "a", "0", "a", "7", "2", "6", "5", "6", "4", "6", "9", "7", "3",
       "2", "d", "6", "2", "6", "9", "7", "4", "7", "3", "c", "0", "4", "0", "f", "a", "0", "5", "6", "3", "7", "4",
       "6", "9", "6", "d", "6", "5", "c", "2", "6", "d", "0", "8", "b", "c", "6", "5", "f", "a", "0", "8", "7", "5",
       "7", "3", "6", "5", "6", "4", "2", "d", "6", "d", "6", "5", "6", "d", "c", "2", "b", "0", "c", "4", "1", "0",
       "0", "0", "f", "a", "0", "8", "6", "1", "6", "f", "6", "6", "2", "d", "6", "2", "6", "1", "7", "3", "6", "5",
       "c", "0", "0", "0", "f", "f", "f", "0", "6", "e", "3", "b", "f", "e", "c", "0", "f", "f", "5", "a", "a", "2"
    >>

\* decode_hex_string: each pair of hex digits is one octet, written here as the
\* two-character token of its digits
decode_hex_string(str) ==
    [j \in 1..(Len(str) \div 2) |-> str[2 * j - 1] \o str[2 * j]]

\* the raw frame handle_connection writes for psync with resp_parser.write_all:
\* "$<len>\r\n" and the octets, no trailing CR LF
SnapshotFrame ==
    LET binary_empty_rdb == decode_hex_string(hardcoded_empty_rdb_file_hex)
    IN <<"$">> \o Format(Len(binary_empty_rdb)) \o CRLF \o binary_empty_rdb

(***************************************************************************)
(* Storage (storage.rs).  The keyspace `data` is a function whose domain   *)
(* is the set of keys present; an entry is a Data record.  Time is counted *)
(* in ticks of 1/TicksPerMs millisecond; Duration::as_millis truncates.    *)
(***************************************************************************)
as_millis(ticks) == ticks \div TicksPerMs

Data(value, created, expiry) == [value |-> value, created |-> created, expiry |-> expiry]

Insert(data, key, d) ==
    [k \in (DOMAIN data) \cup {key} |-> IF k = key THEN d ELSE data[k]]

Remove(data, key) == [k \in (DOMAIN data) \ {key} |-> data[k]]

\* Storage::new
StorageNew == [k \in {} |-> Data(NoValue, 0, None)]

\* a set that leaves an existing entry as it is
StorageSetKeep(data, key, value, expiry, t) ==
    IF key \in DOMAIN data THEN data ELSE Insert(data, key, Data(value, t, expiry))

\* Storage::set at clock reading t
StorageSet(data, key, value, expiry, t) == Insert(data, key, Data(value, t, expiry))

\* the test of line 40: created.elapsed().as_millis() > expiry
ExpiredGe(d, t) == IsSome(d.expiry) /\ as_millis(t - d.created) >= Unwrap(d.expiry)
Expired(d, t) == IsSome(d.expiry) /\ as_millis(t - d.created) > Unwrap(d.expiry)

\* Storage::get at clock reading t: the keyspace afterwards and the result
StorageGetKeep(data, key, t) ==
    IF key \notin DOMAIN data THEN [data |-> data, result |-> None]
    ELSE IF Expired(data[key], t) THEN [data |-> data, result |-> None]
    ELSE [data |-> data, result |-> Some(data[key].value)]
StorageGet(data, key, t) ==
    IF key \notin DOMAIN data THEN [data |-> data, result |-> None]
    ELSE IF Expired(data[key], t) THEN [data |-> Remove(data, key), result |-> None]
    ELSE [data |-> data, result |-> Some(data[key].value)]

(***************************************************************************)
(* Command dispatch (main.rs): parse_command and handle_command.           *)
(***************************************************************************)
CmdOk(command, args) == [k |-> "Ok", command |-> command, args |-> args, msg |-> <<>>]
CmdErr(m) == [k |-> "Err", command |-> <<>>, args |-> <<>>, msg |-> m]
CmdPanic == [k |-> "Panic", command |-> <<>>, args |-> <<>>, msg |-> <<>>]

parse_command(value) ==
    IF value.t # "Array" THEN CmdErr(Lit.expected_array)
    ELSE IF value.a = <<>> THEN CmdPanic
    ELSE IF value.a[1].t = "BulkString" /\ IsSome(value.a[1].b)
         THEN CmdOk(ToLower(Unwrap(value.a[1].b)), Tail(value.a))
         ELSE CmdErr(Lit.expected_bulk)

\* the outcome of handle_command: the reply and the keyspace afterwards, or a panic
Done(reply, data) == [k |-> "Ok", reply |-> reply, data |-> data]
Abort(data) == [k |-> "Panic", reply |-> NoValue, data |-> data]

IsBulkSome(v) == v.t = "BulkString" /\ IsSome(v.b)

\* the TTL that a SET request which reaches Storage::set asks for
SetTtl(args) ==
    IF Len(args) = 2 THEN None ELSE Some(ParseUsize(Unwrap(args[4].b)).val)

\* a SET that stores the entry before it looks at the option name
HandleSetStoreFirst(args, data, t) ==
    IF Len(args) = 2
    THEN Done(SimpleString(Lit.OK), StorageSet(data, to_bytes(args[1]), args[2], None, t))
    ELSE IF Len(args) = 4 /\ IsBulkSome(args[3]) /\ IsBulkSome(args[4])
    THEN IF ToLower(Unwrap(args[3].b)) = Lit.px
         THEN LET expiry == ParseUsize(Unwrap(args[4].b))
              IN IF ~expiry.ok THEN Abort(data)
                 ELSE Done(SimpleString(Lit.OK),
                           StorageSet(data, to_bytes(args[1]), args[2], Some(expiry.val), t))
         ELSE Done(Error(Lit.unknown_argument),
                   StorageSet(data, to_bytes(args[1]), args[2], None, t))
    ELSE Done(Error(Lit.wrong_number), data)

HandleSet(args, data, t) ==
    IF Len(args) = 2
    THEN Done(SimpleString(Lit.OK), StorageSet(data, to_bytes(args[1]), args[2], None, t))
    ELSE IF Len(args) = 4 /\ IsBulkSome(args[3]) /\ IsBulkSome(args[4])
    THEN IF ToLower(Unwrap(args[3].b)) = Lit.px
         THEN LET expiry == ParseUsize(Unwrap(args[4].b))
              IN IF ~expiry.ok THEN Abort(data)
                 ELSE Done(SimpleString(Lit.OK),
                           StorageSet(data, to_bytes(args[1]), args[2], Some(expiry.val), t))
         ELSE Done(Error(Lit.unknown_argument), data)
    ELSE Done(Error(Lit.wrong_number), data)

\* a GET that answers an empty bulk string for a missing key
HandleGetEmpty(args, data, t) ==
    IF args = <<>> THEN Abort(data)
    ELSE LET g == StorageGet(data, to_bytes(args[1]), t)
         IN Done(IF IsSome(g.result) THEN Unwrap(g.result) ELSE B(<<>>), g.data)

HandleGet(args, data, t) ==
    IF args = <<>> THEN Abort(data)
    ELSE LET g == StorageGet(data, to_bytes(args[1]), t)
         IN Done(IF IsSome(g.result) THEN Unwrap(g.result) ELSE BulkString(None), g.data)

HandleInfo(args, replicaof) ==
    IF args = <<>> THEN B(Lit.server_banner)
    ELSE IF Len(args) = 1 /\ IsBulkSome(args[1])
    THEN IF ToLower(Unwrap(args[1].b)) = Lit.replication
         THEN B(Lit.repl_head \o (IF IsSome(replicaof) THEN Lit.slave ELSE Lit.master)
                \o Lit.repl_tail)
         ELSE Error(Lit.unknown_argument)
    ELSE Error(Lit.wrong_number)

handle_command(command, args, data, t, replicaof) ==
    CASE command = Lit.ping -> Done(SimpleString(Lit.PONG), data)
      [] command = Lit.echo -> IF args = <<>> THEN Abort(data) ELSE Done(args[1], data)
      [] command = Lit.set -> HandleSet(args, data, t)
      [] command = Lit.get -> HandleGet(args, data, t)
      [] command = Lit.info -> Done(HandleInfo(args, replicaof), data)
      [] command = Lit.replconf -> Done(B(Lit.OK), data)
      [] command = Lit.psync -> Done(B(Lit.fullresync), data)
      [] OTHER -> Done(Error(Lit.unknown_command), data)

(***************************************************************************)
(* State.                                                                  *)
(***************************************************************************)
VARIABLES
    data,        \* Storage.data of the server
    now,         \* the monotonic clock, in ticks
    replicaof,   \* Settings.replicaof of the server
    last,        \* the latest call of Storage::set or Storage::get and its result
    setInfo,     \* per key, the arguments and time of the latest Storage::set
    expiredSeen, \* keys whose latest get found the entry expired (no set since)
    cval,        \* codec: the RespValue given to to_bytes
    cbytes,      \* codec: the bytes given to parse_single
    cout,        \* codec: the outcome of parse_single
    cpc,         \* codec: "value", "encoded", "prefix", "decoded", "decodedPrefix"
    inbox,       \* per connection: bytes received on the socket, not yet read
    buffer,      \* per connection: RespParser.buffer
    task,        \* per connection: "running", "panicked" or "stopped"
    cause,       \* per connection: why the task panicked
    written,     \* per connection: the writes of the latest loop iteration
    obs,         \* per connection: what the latest loop iteration read and decoded
    pending,     \* per client: bytes of its current request not yet sent
    closed,      \* per client: it has closed its end of the connection
    nreq,        \* per client: requests started
    wire,        \* leader to follower: writes in flight
    frecv,       \* follower: bytes received on the leader connection, not yet read
    link,        \* the follower's connection to the leader: "up" or "reset"
    fpc,         \* follower: its place in main
    fstream,     \* follower: the TcpStream to the leader: "none", "open", "dropped"
    fsent,       \* follower: the commands written to the leader, in order
    fgot,        \* follower: the byte count each read returned, in order
    fseen,       \* follower: the bytes its reads returned after PSYNC was written
    faccepted,   \* follower: client connections accepted by its listener loop
    lpc,         \* per task: "read", "wait", "locked", "write" or "panicked"
    lreq,        \* per task: the request Value it is handling
    lres,        \* per task: the reply it is about to write
    lock,        \* the owner of the write guard of the RwLock, or "free"
    lq,          \* the tasks waiting in storage.write().await, in arrival order
    winner,      \* per key, the value and TTL of the SET that took the lock last
    lexp         \* per task: winner[key] when its GET took the lock

storageVars == <<data, now, replicaof, last, setInfo, expiredSeen>>
codecVars == <<cval, cbytes, cout, cpc>>
connVars == <<inbox, buffer, task, cause, written, obs, pending, closed, nreq>>
replVars == <<wire, frecv, link, fpc, fstream, fsent, fgot, fseen, faccepted>>
lockVars == <<lpc, lreq, lres, lock, lq, winner, lexp>>
vars == <<storageVars, codecVars, connVars, replVars, lockVars>>

Conns == {"c1"}
Tasks == {"t1", "t2"}

\* prev: for a set, the TTL of the entry it replaced (None if there was no entry)
NoOp ==
    [op |-> "none", key |-> <<>>, result |-> None, at |-> 0, seen |-> FALSE,
     prev |-> None]
\* sent: requests the client has written since the task's latest read;
\* took: requests whose bytes the latest read of the task returned
NoObs ==
    [partial |-> FALSE, decoded |-> FALSE, value |-> NoValue, replies |-> 0,
     sent |-> 0, took |-> 0]

StorageInit ==
    /\ data = StorageNew
    /\ now = 0
    /\ last = NoOp
    /\ setInfo = StorageNew
    /\ expiredSeen = {}

CodecIdle ==
    /\ cval = NoValue
    /\ cbytes = <<>>
    /\ cout = Panic
    /\ cpc = "idle"

ConnInit ==
    /\ inbox = [c \in Conns |-> <<>>]
    /\ buffer = [c \in Conns |-> <<>>]
    /\ task = [c \in Conns |-> "running"]
    /\ cause = [c \in Conns |-> "none"]
    /\ written = [c \in Conns |-> <<>>]
    /\ obs = [c \in Conns |-> NoObs]
    /\ pending = [c \in Conns |-> <<>>]
    /\ closed = [c \in Conns |-> FALSE]
    /\ nreq = [c \in Conns |-> 0]

ReplIdle ==
    /\ wire = <<>>
    /\ frecv = <<>>
    /\ link = "up"
    /\ fpc = "Disconnected"
    /\ fstream = "none"
    /\ fsent = <<>>
    /\ fgot = <<>>
    /\ fseen = <<>>
    /\ faccepted = 0

LockIdle ==
    /\ lpc = [t \in Tasks |-> "read"]
    /\ lreq = [t \in Tasks |-> NoValue]
    /\ lres = [t \in Tasks |-> NoValue]
    /\ lock = "free"
    /\ lq = <<>>
    /\ winner = StorageNew
    /\ lexp = [t \in Tasks |-> None]

(***************************************************************************)
(* The storage engine on its own: calls of Storage::set and Storage::get   *)
(* at arbitrary times.                                                     *)
(***************************************************************************)
Keys == {to_bytes(B(<<"a">>)), to_bytes(B(<<"b">>))}
Vals == {B(<<"x">>), B(<<"y">>)}
Ttls == {None} \cup {Some(n) : n \in 0..MaxTtl}

Tick ==
    /\ now < MaxTime
    /\ now' = now + 1
    /\ UNCHANGED <<data, replicaof, last, setInfo, expiredSeen>>
    /\ UNCHANGED <<codecVars, lockVars, connVars, replVars>>

SetOp(key, value, expiry) ==
    /\ data' = StorageSet(data, key, value, expiry, now)
    /\ last' = [op |-> "set", key |-> key, result |-> None, at |-> now, seen |-> FALSE,
                prev |-> IF key \in DOMAIN data THEN Some(data[key].expiry) ELSE None]
    /\ setInfo' = Insert(setInfo, key, Data(value, now, expiry))
    /\ expiredSeen' = expiredSeen \ {key}
    /\ UNCHANGED <<now, replicaof>>
    /\ UNCHANGED <<codecVars, lockVars, connVars, replVars>>

GetOp(key) ==
    LET g == StorageGet(data, key, now)
    IN /\ data' = g.data
       /\ last' = [op |-> "get", key |-> key, result |-> g.result, at |-> now,
                   seen |-> key \in expiredSeen, prev |-> None]
       /\ expiredSeen' = IF key \in DOMAIN data /\ g.result = None
                         THEN expiredSeen \cup {key} ELSE expiredSeen
       /\ UNCHANGED <<now, replicaof, setInfo>>
       /\ UNCHANGED <<codecVars, lockVars, connVars, replVars>>

InitStorage ==
    /\ StorageInit
    /\ replicaof = None
    /\ CodecIdle
    /\ ConnInit
    /\ ReplIdle
    /\ LockIdle

NextStorage ==
    \/ Tick
    \/ \E key \in Keys, value \in Vals, expiry \in Ttls : SetOp(key, value, expiry)
    \/ \E key \in Keys : GetOp(key)

SpecStorage == InitStorage /\ [][NextStorage]_vars

(***************************************************************************)
(* Claims about the storage engine (checked under SpecStorage).            *)
(***************************************************************************)
\* the latest call was a get of a key whose latest set carried a TTL
GetOfTtlKey ==
    /\ last.op = "get"
    /\ last.key \in DOMAIN setInfo
    /\ IsSome(setInfo[last.key].expiry)

\* ticks elapsed at that get since the latest set of its key
ElapsedAtGet == last.at - setInfo[last.key].created

TtlTicks == Unwrap(setInfo[last.key].expiry) * TicksPerMs

C2_NoResurrection ==
    /\ \A key \in expiredSeen : key \notin DOMAIN data
    /\ (last.op = "get" /\ last.seen) => last.result = None

\* C2 witness: a second get of a key after the get that found it expired
C2_Witness ==
    /\ last.op = "get"
    /\ last.seen
    /\ last.result = None
    /\ last.key \in DOMAIN setInfo

\* C14: after set(k, v, ttl) the entry of k is exactly v with exactly that ttl
\* and the time of this set as creation time, whatever was stored before, and
\* a get(k) at the time of the set returns v.
C14_SetReplacesEntry ==
    /\ last.op = "set" =>
          /\ last.key \in DOMAIN data
          /\ data[last.key] = setInfo[last.key]
          /\ data[last.key].created = last.at
    /\ (last.op = "get" /\ last.key \in DOMAIN setInfo
           /\ last.at = setInfo[last.key].created) =>
          last.result = Some(setInfo[last.key].value)

\* a set without TTL, or with another TTL, has replaced an older entry that had
\* a TTL
C14_Witness ==
    /\ last.op = "set"
    /\ IsSome(last.prev)
    /\ IsSome(Unwrap(last.prev))
    /\ Unwrap(last.prev) # setInfo[last.key].expiry
    /\ last.at > 0

(***************************************************************************)
(* The codec on its own: a RespValue is encoded, the bytes (or a strict    *)
(* prefix of them) are handed to parse_single.                             *)
(***************************************************************************)
CodecLeaves ==
    {SimpleString(<<>>), SimpleString(Lit.OK), Error(<<"E", "R", "R">>),
     Integer(0), Integer(42), Integer(-7),
     BulkString(None), B(<<>>), B(<<"h", "i">>), B(<<CR, LF>>)}

CodecElements == CodecLeaves \cup {Array(<<>>), Array(<<B(<<"h", "i">>)>>)}

SeqsUpTo(S, n) == UNION {[1..m -> S] : m \in 0..n}

CodecValues == CodecLeaves \cup {Array(a) : a \in SeqsUpTo(CodecElements, MaxArrayLen)}

InitCodec ==
    /\ StorageInit
    /\ replicaof = None
    /\ cval \in CodecValues
    /\ cbytes = <<>>
    /\ cout = Panic
    /\ cpc = "value"
    /\ ConnInit
    /\ ReplIdle
    /\ LockIdle

CodecEncode ==
    /\ cpc = "value"
    /\ cbytes' = to_bytes(cval)
    /\ cpc' = "encoded"
    /\ UNCHANGED <<cval, cout>>
    /\ UNCHANGED <<storageVars, connVars, replVars, lockVars>>

\* keep only the first n bytes, 0 < n < length
CodecTruncate(n) ==
    /\ cpc = "encoded"
    /\ n < Len(cbytes)
    /\ cbytes' = SubSeq(cbytes, 1, n)
    /\ cpc' = "prefix"
    /\ UNCHANGED <<cval, cout>>
    /\ UNCHANGED <<storageVars, connVars, replVars, lockVars>>

CodecDecode ==
    /\ cpc \in {"encoded", "prefix"}
    /\ cout' = parse_single(cbytes)
    /\ cpc' = IF cpc = "encoded" THEN "decoded" ELSE "decodedPrefix"
    /\ UNCHANGED <<cval, cbytes>>
    /\ UNCHANGED <<storageVars, connVars, replVars, lockVars>>

NextCodec ==
    \/ CodecEncode
    \/ \E n \in 1..Len(cbytes) : CodecTruncate(n)
    \/ CodecDecode

SpecCodec == InitCodec /\ [][NextCodec]_vars

\* no CR LF inside the text of a SimpleString or Error, at any depth
RECURSIVE NoEmbeddedTerminator(_)
NoEmbeddedTerminator(v) ==
    /\ CrlfPositions(v.s) = {}
    /\ \A j \in 1..Len(v.a) : NoEmbeddedTerminator(v.a[j])

\* C3: for every Value without CR LF in status text, decoding encode(v) returns
\* v itself and a consumed-byte count equal to the length of encode(v).
C3_RoundTrip ==
    (cpc = "decoded" /\ NoEmbeddedTerminator(cval)) => cout = Ok(cval, Len(cbytes))

\* C4: decoding a strict, non-empty prefix of a valid encoding reports
\* "incomplete": an Err carrying the incomplete-response message, never another
\* error, a value or a panic.
C4_PrefixIncomplete ==
    cpc = "decodedPrefix" => (cout.k = "Err" /\ cout.msg = "incomplete response")

(***************************************************************************)
(* One connection task (handle_connection) and its client.                 *)
(***************************************************************************)
Cmd(words) == Array([j \in 1..Len(words) |-> B(words[j])])

\* the requests a client sends: encodings of Values, and two byte strings that
\* the decoder accepts as an Array whose first element is not a present bulk
Requests ==
    {to_bytes(v) : v \in
        {Cmd(<<Lit.PING>>),
         Cmd(<<Lit.ECHO, <<"x">>>>), Cmd(<<Lit.ECHO>>),
         Cmd(<<Lit.SET, <<"a">>, <<"x">>>>), Cmd(<<Lit.SET, <<"a">>>>),
         Cmd(<<Lit.SET, <<"a">>, <<"x">>, Lit.PX, <<"1">> >>),
         Cmd(<<Lit.SET, <<"a">>, <<"x">>, Lit.px, <<"0">> >>),
         Cmd(<<Lit.SET, <<"a">>, <<"x">>, Lit.PX, Lit.minus1>>),
         Cmd(<<Lit.SET, <<"a">>, <<"x">>, Lit.PX, <<"x">>>>),
         Cmd(<<Lit.SET, <<"a">>, <<"x">>, <<"x">>, <<"1">> >>),
         Cmd(<<Lit.GET, <<"a">>>>), Cmd(<<Lit.GET>>),
         Cmd(<<Lit.INFO>>), Cmd(<<Lit.INFO, Lit.replication>>), Cmd(<<Lit.INFO, <<"x">>>>),
         Cmd(<<Lit.REPLCONF, Lit.capa, Lit.psync2>>),
         Cmd(<<Lit.PSYNC, Lit.q, Lit.minus1>>),
         Cmd(<<<<"x">>>>),
         Array(<<>>),
         SimpleString(Lit.PONG)}}
    \cup {to_bytes(Array(<<BulkString(None)>>)) \o <<"x">>,
          to_bytes(Array(<<Integer(42)>>)) \o <<"x">>}

Replicaofs == {None, Some(<<"l", "o", "c", "a", "l", "h", "o", "s", "t", " ", "1">>)}

\* The client, having taken what the server wrote, starts a request and sends
\* all of it but the last `tail` bytes.
ClientSend(c, req, tail) ==
    /\ ~closed[c]
    /\ pending[c] = <<>>
    /\ inbox[c] = <<>>
    /\ nreq[c] < MaxRequests
    /\ tail < Len(req)
    /\ nreq' = [nreq EXCEPT ![c] = @ + 1]
    /\ inbox' = [inbox EXCEPT ![c] = SubSeq(req, 1, Len(req) - tail)]
    /\ pending' = [pending EXCEPT ![c] = SubSeq(req, Len(req) - tail + 1, Len(req))]
    /\ written' = [written EXCEPT ![c] = <<>>]
    /\ obs' = [obs EXCEPT ![c] = [NoObs EXCEPT !.sent = 1]]
    /\ UNCHANGED <<buffer, task, cause, closed>>
    /\ UNCHANGED <<storageVars, codecVars, lockVars, replVars>>

\* The client writes two requests back to back (pipelining).
ClientSendTwo(c, req1, req2) ==
    /\ ~closed[c]
    /\ pending[c] = <<>>
    /\ inbox[c] = <<>>
    /\ nreq[c] + 1 < MaxRequests
    /\ nreq' = [nreq EXCEPT ![c] = @ + 2]
    /\ inbox' = [inbox EXCEPT ![c] = req1 \o req2]
    /\ written' = [written EXCEPT ![c] = <<>>]
    /\ obs' = [obs EXCEPT ![c] = [NoObs EXCEPT !.sent = 2]]
    /\ UNCHANGED <<buffer, task, cause, pending, closed>>
    /\ UNCHANGED <<storageVars, codecVars, lockVars, replVars>>

\* the client sends the rest of its request
ClientSendRest(c) ==
    /\ ~closed[c]
    /\ pending[c] # <<>>
    /\ inbox' = [inbox EXCEPT ![c] = @ \o pending[c]]
    /\ pending' = [pending EXCEPT ![c] = <<>>]
    /\ UNCHANGED <<buffer, task, cause, written, obs, closed, nreq>>
    /\ UNCHANGED <<storageVars, codecVars, lockVars, replVars>>

\* the client, with nothing left to send, closes its end
ClientClose(c) ==
    /\ ~closed[c]
    /\ pending[c] = <<>>
    /\ inbox[c] = <<>>
    /\ closed' = [closed EXCEPT ![c] = TRUE]
    /\ UNCHANGED <<inbox, buffer, task, cause, written, obs, pending, nreq>>
    /\ UNCHANGED <<storageVars, codecVars, lockVars, replVars>>

\* The outcome of one iteration of the loop of handle_connection on the bytes
\* `bytes` that read_buf left in the buffer: the panic that ends the task, or the
\* writes made and the keyspace afterwards.
Iter(k, why, decoded, value, writes, replies, d) ==
    [k |-> k, why |-> why, decoded |-> decoded, value |-> value, writes |-> writes,
     replies |-> replies, data |-> d]

Iteration(bytes, d, t, ro) ==
    LET r == parse_single(bytes)
    IN IF r.k = "Panic" THEN Iter("Panic", "parse_single", FALSE, NoValue, <<>>, 0, d)
       ELSE IF r.k = "Err" THEN Iter("Panic", "incomplete response", FALSE, NoValue, <<>>, 0, d)
       ELSE LET pc == parse_command(r.v)
            IN IF pc.k = "Panic" THEN Iter("Panic", "parse_command", TRUE, r.v, <<>>, 0, d)
               ELSE IF pc.k = "Err"
               THEN Iter("Ok", "none", TRUE, r.v, <<to_bytes(Error(pc.msg))>>, 1, d)
               ELSE LET h == handle_command(pc.command, pc.args, d, t, ro)
                    IN IF h.k = "Panic"
                       THEN Iter("Panic", "handle_command", TRUE, r.v, <<>>, 0,
                                 h.data)
                       ELSE Iter("Ok", "none", TRUE, r.v,
                                 (IF ToLower(pc.command) = Lit.psync
                                  THEN <<SnapshotFrame>> ELSE <<>>)
                                 \o <<to_bytes(h.reply)>>,
                                 1, h.data)

\* RespParser::parse when the read returns 0 bytes: the task panics on the Err
ConnReadEof(c) ==
    /\ task[c] = "running"
    /\ inbox[c] = <<>>
    /\ closed[c]
    /\ task' = [task EXCEPT ![c] = "panicked"]
    /\ cause' = [cause EXCEPT ![c] = "connection closed"]
    /\ written' = [written EXCEPT ![c] = <<>>]
    /\ obs' = [obs EXCEPT ![c] = NoObs]
    /\ UNCHANGED <<inbox, buffer, pending, closed, nreq>>
    /\ UNCHANGED <<storageVars, codecVars, lockVars, replVars>>

\* One iteration of the loop of handle_connection: read_buf takes the bytes
\* received so far, buffer.split() hands all of them to parse_single and leaves
\* the buffer empty, the command is dispatched and the reply written.
ConnStep(c) ==
    /\ task[c] = "running"
    /\ inbox[c] # <<>>
    /\ LET bytes == buffer[c] \o inbox[c]
           it == Iteration(bytes, data, now, replicaof)
       IN /\ inbox' = [inbox EXCEPT ![c] = <<>>]
          /\ buffer' = [buffer EXCEPT ![c] = <<>>]
          /\ task' = [task EXCEPT ![c] = IF it.k = "Ok" THEN "running" ELSE "panicked"]
          /\ cause' = [cause EXCEPT ![c] = it.why]
          /\ written' = [written EXCEPT ![c] = it.writes]
          /\ obs' = [obs EXCEPT ![c] =
                        [partial |-> pending[c] # <<>>, decoded |-> it.decoded,
                         value |-> it.value, replies |-> it.replies,
                         sent |-> 0, took |-> obs[c].sent]]
          /\ data' = it.data
    /\ UNCHANGED <<pending, closed, nreq>>
    /\ UNCHANGED <<now, replicaof, last, setInfo, expiredSeen>>
    /\ UNCHANGED <<codecVars, lockVars>>

\* a millisecond passes between two requests
ConnTick ==
    /\ \A c \in Conns : inbox[c] = <<>> /\ pending[c] = <<>>
    /\ now + TicksPerMs <= MaxTime
    /\ now' = now + TicksPerMs
    /\ UNCHANGED <<data, replicaof, last, setInfo, expiredSeen>>
    /\ UNCHANGED <<codecVars, lockVars, connVars, replVars>>

InitConn ==
    /\ StorageInit
    /\ replicaof \in Replicaofs
    /\ CodecIdle
    /\ ConnInit
    /\ ReplIdle
    /\ LockIdle

NextConn ==
    \/ \E c \in Conns, req \in Requests, tail \in 0..MaxTail : ClientSend(c, req, tail)
    \/ \E c \in Conns, req1 \in Requests, req2 \in Requests : ClientSendTwo(c, req1, req2)
    \/ \E c \in Conns : ClientSendRest(c)
    \/ \E c \in Conns : ClientClose(c)
    \/ \E c \in Conns : ConnReadEof(c)
    \/ \E c \in Conns : ConnStep(c) /\ UNCHANGED replVars
    \/ ConnTick

SpecConn == InitConn /\ [][NextConn]_vars

(***************************************************************************)
(* Claims about a connection task (checked under SpecConn).                *)
(***************************************************************************)
\* C5: when a read delivers only part of a request, the task keeps running and
\* keeps the bytes received in its buffer, so that the rest can be appended and
\* the request dispatched.
C5_PartialFrameKept ==
    \A c \in Conns : obs[c].partial => (task[c] = "running" /\ buffer[c] # <<>>)

\* C6: every request Value that is decoded gets exactly one reply and leaves the
\* connection task running.
C6_OneReplyTaskAlive ==
    \A c \in Conns : obs[c].decoded => (task[c] = "running" /\ obs[c].replies = 1)

\* the latest iteration dispatched a PSYNC request
PsyncHandled(c) ==
    /\ obs[c].decoded
    /\ task[c] = "running"
    /\ parse_command(obs[c].value).k = "Ok"
    /\ parse_command(obs[c].value).command = Lit.psync

\* C7: for every PSYNC request the FULLRESYNC reply is written first and the
\* snapshot frame follows it immediately.
C7_FullresyncThenSnapshot ==
    \A c \in Conns :
        PsyncHandled(c) => written[c] = <<to_bytes(B(Lit.fullresync)), SnapshotFrame>>

\* C11: on a connection whose task keeps running, a read takes the bytes of
\* one request only (request i+1 is not read before the reply to request i is
\* written) and the iteration writes one reply for it: as many replies as
\* requests, in request order.
C11_OneReplyPerRequestInOrder ==
    \A c \in Conns :
        (task[c] = "running" /\ obs[c].took >= 1) =>
            (obs[c].took = 1 /\ obs[c].replies = 1)

\* the latest iteration decoded a SET request
SetRequest(c) ==
    /\ obs[c].decoded
    /\ parse_command(obs[c].value).k = "Ok"
    /\ parse_command(obs[c].value).command = Lit.set

\* four arguments, the third PX in any case, the fourth a non-negative integer
IsPxTtl(args) ==
    /\ Len(args) = 4 /\ IsBulkSome(args[3]) /\ IsBulkSome(args[4])
    /\ ToLower(Unwrap(args[3].b)) = Lit.px
    /\ ParseUsize(Unwrap(args[4].b)).ok

\* C13: SET with two arguments, or with four of which the third is PX and the
\* fourth a non-negative integer, stores the entry (with that TTL) and replies
\* OK; every other four-argument SET replies the unknown-argument error and
\* every other argument count the wrong-number error.
C13_SetShapes ==
    \A c \in Conns :
        SetRequest(c) =>
            LET args == parse_command(obs[c].value).args
            IN IF Len(args) = 2 \/ IsPxTtl(args)
               THEN /\ written[c] = <<to_bytes(SimpleString(Lit.OK))>>
                    /\ to_bytes(args[1]) \in DOMAIN data
                    /\ data[to_bytes(args[1])].value = args[2]
                    /\ data[to_bytes(args[1])].expiry = SetTtl(args)
               ELSE IF Len(args) = 4
               THEN written[c] = <<to_bytes(Error(Lit.unknown_argument))>>
               ELSE written[c] = <<to_bytes(Error(Lit.wrong_number))>>

\* the iteration that has just ended dispatched a SET that was answered OK
SetAnsweredOk(c) ==
    /\ SetRequest(c)'
    /\ written'[c] = <<to_bytes(SimpleString(Lit.OK))>>

\* the iteration that has just ended dispatched a GET of a stored key, answered
\* null, and the entry of that key is gone
GetFoundExpired(c) ==
    /\ obs'[c].decoded
    /\ parse_command(obs'[c].value).k = "Ok"
    /\ parse_command(obs'[c].value).command = Lit.get
    /\ parse_command(obs'[c].value).args # <<>>
    /\ LET key == to_bytes(parse_command(obs'[c].value).args[1])
       IN /\ key \in DOMAIN data
          /\ data' = Remove(data, key)
          /\ written'[c] = <<to_bytes(BulkString(None))>>

\* C16: the keyspace changes only in a SET that is answered OK and in a GET
\* that finds an expired entry; PING, ECHO, INFO, REPLCONF, PSYNC, unknown
\* commands and every request answered with an error leave it as it was.
C16_OnlySetAndExpiredGetChange ==
    [][data' # data => \E c \in Conns : SetAnsweredOk(c) \/ GetFoundExpired(c)]_vars

\* with an entry stored, a four-argument SET has been answered with the
\* unknown-argument error and the task runs on
C16_Witness ==
    /\ data # StorageNew
    /\ \E c \in Conns :
          /\ SetRequest(c)
          /\ task[c] = "running"
          /\ written[c] = <<to_bytes(Error(Lit.unknown_argument))>>

\* C20: every read on a client connection that returns bytes of a request
\* dispatches exactly one request and writes exactly one reply, the task
\* running on; when the read returned two requests, nothing of the second one
\* is kept for a later read.
C20_OneDispatchPerRead ==
    \A c \in Conns :
        obs[c].took >= 1 =>
            /\ obs[c].decoded
            /\ task[c] = "running"
            /\ obs[c].replies = 1
            /\ obs[c].took = 2 => buffer[c] = <<>>

(***************************************************************************)
(* The follower's handshake in main, against a leader whose connection     *)
(* task is handle_connection on connection "c1".                           *)
(***************************************************************************)
DefaultPort == 6379

HandshakeCommands ==
    <<to_bytes(Cmd(<<Lit.PING>>)),
      to_bytes(Cmd(<<Lit.REPLCONF, Lit.listening_port, Format(DefaultPort)>>)),
      to_bytes(Cmd(<<Lit.REPLCONF, Lit.capa, Lit.psync2>>)),
      to_bytes(Cmd(<<Lit.PSYNC, Lit.q, Lit.minus1>>))>>

ReadStates == {"PingSent", "ListeningPortSent", "CapaSent", "PsyncSent"}

NextState(pc) ==
    CASE pc = "Connected" -> "PingSent"
      [] pc = "PingSent" -> "ListeningPortSent"
      [] pc = "ListeningPortSent" -> "CapaSent"
      [] pc = "CapaSent" -> "PsyncSent"
      [] OTHER -> "Accepting"

LeaderOpen == task["c1"] = "running"

\* TcpStream::connect(..).await?
FollowerConnect ==
    /\ fpc = "Disconnected"
    /\ IF LeaderOpen /\ link = "up"
       THEN fpc' = "Connected" /\ fstream' = "open"
       ELSE fpc' = "Failed" /\ fstream' = "none"
    /\ UNCHANGED <<wire, frecv, link, fsent, fgot, fseen, faccepted>>
    /\ UNCHANGED <<storageVars, codecVars, lockVars, connVars>>

\* stream.write_all(command).await?; stream.flush().await?  A write on a
\* connection the peer has closed succeeds; the peer's reset may follow.
FollowerWrite(newlink) ==
    /\ IF link = "reset"
       THEN /\ fpc' = "Failed"
            /\ UNCHANGED <<inbox, fsent, link>>
       ELSE /\ fpc' = NextState(fpc)
            /\ inbox' = [inbox EXCEPT !["c1"] = @ \o HandshakeCommands[Len(fsent) + 1]]
            /\ fsent' = Append(fsent, HandshakeCommands[Len(fsent) + 1])
            /\ link' = IF LeaderOpen THEN link ELSE newlink

\* the write of PING (lines 43-48)
FollowerSendPing ==
    /\ fpc = "Connected"
    /\ \E newlink \in {"up", "reset"} : FollowerWrite(newlink)
    /\ UNCHANGED <<wire, frecv, fstream, fgot, fseen, faccepted>>
    /\ UNCHANGED <<buffer, task, cause, written, obs, pending, closed, nreq>>
    /\ UNCHANGED <<storageVars, codecVars, lockVars>>

\* stream.read(&mut [0; 1024]).await? fails on a reset connection
FollowerReadFails ==
    /\ fpc \in ReadStates
    /\ link = "reset"
    /\ fpc' = "Failed"
    /\ UNCHANGED <<wire, frecv, link, fstream, fsent, fgot, fseen, faccepted>>
    /\ UNCHANGED <<storageVars, codecVars, lockVars, connVars>>

\* a read that returns only once the whole 1024-byte buffer is filled
ReadReadyExact ==
    /\ fpc \in ReadStates
    /\ link = "up"
    /\ Len(frecv) >= 1024

\* the read has bytes to return, or returns 0 at the end of the stream
ReadReady ==
    /\ fpc \in ReadStates
    /\ link = "up"
    /\ frecv # <<>> \/ (~LeaderOpen /\ wire = <<>>)

\* stream.read(..).await? returns Ok(n), n >= 0, and main goes on to write the
\* next command (lines 49-86)
FollowerReadThenWrite ==
    /\ ReadReady
    /\ fpc # "PsyncSent"
    /\ fgot' = Append(fgot, Len(frecv))
    /\ frecv' = <<>>
    /\ \E newlink \in {"up", "reset"} : FollowerWrite(newlink)
    /\ UNCHANGED <<wire, fstream, fseen, faccepted>>
    /\ UNCHANGED <<buffer, task, cause, written, obs, pending, closed, nreq>>
    /\ UNCHANGED <<storageVars, codecVars, lockVars>>

\* the read after PSYNC returns Ok(n), n >= 0; the block of line 39 ends, which
\* drops the stream, and main enters the listener loop (lines 88-93)
FollowerReadLast ==
    /\ ReadReady
    /\ fpc = "PsyncSent"
    /\ fgot' = Append(fgot, Len(frecv))
    /\ fseen' = fseen \o frecv
    /\ frecv' = <<>>
    /\ fstream' = "dropped"
    /\ closed' = [closed EXCEPT !["c1"] = TRUE]
    /\ fpc' = "Accepting"
    /\ UNCHANGED <<wire, link, fsent, faccepted>>
    /\ UNCHANGED <<inbox, buffer, task, cause, written, obs, pending, nreq>>
    /\ UNCHANGED <<storageVars, codecVars, lockVars>>

\* listener.accept() in the loop of lines 93-101
FollowerAccept ==
    /\ fpc = "Accepting"
    /\ faccepted < MaxAccepted
    /\ faccepted' = faccepted + 1
    /\ UNCHANGED <<wire, frecv, link, fpc, fstream, fsent, fgot, fseen>>
    /\ UNCHANGED <<storageVars, codecVars, lockVars, connVars>>

\* the leader's connection task serves one request; its writes go on the wire
LeaderStep ==
    /\ ConnStep("c1")
    /\ wire' = wire \o written'["c1"]
    /\ UNCHANGED <<frecv, link, fpc, fstream, fsent, fgot, fseen, faccepted>>

\* the leader's task finds the connection closed by the follower
LeaderReadEof ==
    /\ ConnReadEof("c1")

\* the next write in flight reaches the follower
Deliver ==
    /\ wire # <<>>
    /\ link = "up"
    /\ fstream = "open"
    /\ frecv' = frecv \o Head(wire)
    /\ wire' = Tail(wire)
    /\ UNCHANGED <<link, fpc, fstream, fsent, fgot, fseen, faccepted>>
    /\ UNCHANGED <<storageVars, codecVars, lockVars, connVars>>

\* the leader closes the connection (its process or its task ends)
LeaderClose ==
    /\ LeaderOpen
    /\ task' = [task EXCEPT !["c1"] = "stopped"]
    /\ UNCHANGED <<inbox, buffer, cause, written, obs, pending, closed, nreq>>
    /\ UNCHANGED <<storageVars, codecVars, lockVars, replVars>>

\* the network fails: every later read or write of the follower is an error
LinkReset ==
    /\ link = "up"
    /\ fstream # "dropped"
    /\ link' = "reset"
    /\ UNCHANGED <<wire, frecv, fpc, fstream, fsent, fgot, fseen, faccepted>>
    /\ UNCHANGED <<storageVars, codecVars, lockVars, connVars>>

InitRepl ==
    /\ StorageInit
    /\ replicaof = None
    /\ CodecIdle
    /\ ConnInit
    /\ ReplIdle
    /\ LockIdle

NextRepl ==
    \/ FollowerConnect
    \/ FollowerSendPing
    \/ FollowerReadFails
    \/ FollowerReadThenWrite
    \/ FollowerReadLast
    \/ FollowerAccept
    \/ LeaderStep
    \/ LeaderReadEof
    \/ Deliver
    \/ LeaderClose
    \/ LinkReset

SpecRepl == InitRepl /\ [][NextRepl]_vars

(***************************************************************************)
(* Claims about the follower's handshake (checked under SpecRepl).         *)
(***************************************************************************)
IsPrefix(s, t) == Len(s) <= Len(t) /\ s = SubSeq(t, 1, Len(s))

\* the commands are written in the order PING, REPLCONF listening-port,
\* REPLCONF capa, PSYNC, each at most once
HandshakeInOrder == IsPrefix(fsent, HandshakeCommands)

\* no client connection is accepted before the read after PSYNC has returned
AcceptAfterPsync == faccepted > 0 => (Len(fsent) = 4 /\ Len(fgot) = 4)

\* command i + 1 is written only after bytes of a reply to command i were read
ReplyBeforeNext == \A j \in 2..Len(fsent) : Len(fgot) >= j - 1 /\ fgot[j - 1] > 0

\* C8: the follower sends exactly PING, REPLCONF listening-port, REPLCONF capa,
\* PSYNC in that order, each one only after a reply to the previous one has
\* been received, and accepts no client connection before the PSYNC step has
\* finished.
C8_SequentialHandshake == HandshakeInOrder /\ ReplyBeforeNext /\ AcceptAfterPsync

\* a read of the handshake has returned end-of-stream (0 bytes)
SawEof == \E j \in 1..Len(fgot) : fgot[j] = 0

\* C9: if the leader connection fails or is closed by the leader (a read
\* returns 0 bytes) during the handshake, the follower is in the failed state:
\* no further command is sent and no client connection is ever accepted.
C9_DisconnectIsFatal == SawEof => (fpc = "Failed" /\ faccepted = 0)

\* C10: the follower finishes the handshake only after it has received both
\* the FULLRESYNC reply and the entire snapshot frame, and it then stays
\* connected to the leader.
C10_ResyncReceivedAndConnected ==
    fpc = "Accepting" =>
        /\ Len(fseen) = Len(to_bytes(B(Lit.fullresync))) + Len(SnapshotFrame)
        /\ fstream = "open"

(***************************************************************************)
(* The handshake with the scheduling the runtime and the network give: the *)
(* follower's main task and the leader's connection task run when they can *)
(* and bytes written are delivered.  The leader may still stop and the     *)
(* network may still fail; neither is required to happen.                  *)
(***************************************************************************)
FollowerStep ==
    \/ FollowerConnect
    \/ FollowerSendPing
    \/ FollowerReadFails
    \/ FollowerReadThenWrite
    \/ FollowerReadLast

\* the leader's task has bytes to read: LeaderStep is enabled
LeaderCanStep == LeaderOpen /\ inbox["c1"] # <<>>

\* weak fairness of FollowerStep, LeaderStep and Deliver; for LeaderStep it is
\* written out, with LeaderCanStep for ENABLED <<LeaderStep>>_vars
ReplFairness ==
    /\ WF_vars(FollowerStep)
    /\ []<>(~LeaderCanStep) \/ []<><<LeaderStep>>_vars
    /\ WF_vars(Deliver)

SpecReplFair == InitRepl /\ [][NextRepl]_vars /\ ReplFairness

\* the leader is running and the connection to it works
ResponsiveLeader == task["c1"] # "stopped" /\ link = "up"

\* the follower has written all four commands and entered the listener loop
HandshakeComplete == fpc = "Accepting" /\ Len(fsent) = 4

\* C17: unless the leader stops or the connection fails, the follower
\* eventually has connected, written PING, REPLCONF listening-port, REPLCONF
\* capa and PSYNC, and entered its listener loop; and it fails only when the
\* leader has stopped or the connection has failed.
C17_HandshakeCompletes ==
    /\ <>(HandshakeComplete \/ ~ResponsiveLeader)
    /\ [](fpc = "Failed" => ~ResponsiveLeader)

\* the handshake is complete, every read having returned bytes of the leader
C17_Witness ==
    /\ HandshakeComplete
    /\ ResponsiveLeader
    /\ Len(fgot) = 4
    /\ ~SawEof

(***************************************************************************)
(* Several connection tasks sharing the keyspace behind the RwLock: the    *)
(* requests are Values already decoded; the steps are the await points of  *)
(* handle_connection and handle_command.                                   *)
(***************************************************************************)
LockRequests ==
    {Cmd(<<Lit.SET, <<"a">>, <<"x">>>>),
     Cmd(<<Lit.SET, <<"a">>, <<"y">>>>),
     Cmd(<<Lit.SET, <<"a">>, <<"x">>, Lit.PX, <<"0">> >>),
     Cmd(<<Lit.GET, <<"a">>>>),
     Cmd(<<Lit.GET>>),
     Cmd(<<Lit.PING>>)}

\* handle_command reaches storage.write().await for this command
NeedsLock(command, args) ==
    \/ command = Lit.get
    \/ /\ command = Lit.set
       /\ \/ Len(args) = 2
          \/ /\ Len(args) = 4 /\ IsBulkSome(args[3]) /\ IsBulkSome(args[4])
             /\ ToLower(Unwrap(args[3].b)) = Lit.px
             /\ ParseUsize(Unwrap(args[4].b)).ok

\* storage.write().await returns: no guard is out and the task is first in line
CanAcquireShared(t) == lq # <<>> /\ Head(lq) = t
CanAcquire(t) == lock = "free" /\ lq # <<>> /\ Head(lq) = t

\* the guard `let mut storage = storage.write().await` is owned by the task
WriteGuardDropped(t) == "free"
WriteGuard(t) == t

\* the guard is dropped when the match arm ends, and by unwinding on a panic
GuardAfterKeptOnPanic(t, k) == IF k = "Panic" THEN t ELSE "free"
GuardAfter(t, k) == "free"

\* resp_parser.parse().await returns a request; handle_command runs up to its
\* first await
LockRecv(t, value) ==
    /\ lpc[t] = "read"
    /\ LET pc == parse_command(value)
       IN IF NeedsLock(pc.command, pc.args)
          THEN /\ lpc' = [lpc EXCEPT ![t] = "wait"]
               /\ lq' = Append(lq, t)
               /\ lreq' = [lreq EXCEPT ![t] = value]
               /\ UNCHANGED lres
          ELSE LET h == handle_command(pc.command, pc.args, data, now, replicaof)
               IN /\ lpc' = [lpc EXCEPT ![t] = IF h.k = "Ok" THEN "write" ELSE "panicked"]
                  /\ lres' = [lres EXCEPT ![t] = h.reply]
                  /\ lreq' = [lreq EXCEPT ![t] = value]
                  /\ UNCHANGED lq
    /\ UNCHANGED <<lock, winner, lexp>>
    /\ UNCHANGED <<storageVars, codecVars, connVars, replVars>>

\* storage.write().await returns the guard
LockAcquire(t) ==
    /\ lpc[t] = "wait"
    /\ CanAcquire(t)
    /\ lock' = WriteGuard(t)
    /\ lq' = Tail(lq)
    /\ lpc' = [lpc EXCEPT ![t] = "locked"]
    /\ LET pc == parse_command(lreq[t])
           key == IF pc.args = <<>> THEN <<>> ELSE to_bytes(pc.args[1])
       IN IF pc.command = Lit.set
          THEN /\ winner' = Insert(winner, key,
                                   [value |-> pc.args[2], expiry |-> SetTtl(pc.args)])
               /\ UNCHANGED lexp
          ELSE /\ lexp' = [lexp EXCEPT ![t] =
                              IF key \in DOMAIN winner THEN Some(winner[key]) ELSE None]
               /\ UNCHANGED winner
    /\ UNCHANGED <<lreq, lres>>
    /\ UNCHANGED <<storageVars, codecVars, connVars, replVars>>

\* under the guard: Storage::set or Storage::get, then the guard is dropped
LockOperate(t) ==
    /\ lpc[t] = "locked"
    /\ LET pc == parse_command(lreq[t])
           h == handle_command(pc.command, pc.args, data, now, replicaof)
       IN /\ data' = h.data
          /\ lres' = [lres EXCEPT ![t] = h.reply]
          /\ lpc' = [lpc EXCEPT ![t] = IF h.k = "Ok" THEN "write" ELSE "panicked"]
          /\ lock' = GuardAfter(t, h.k)
          /\ setInfo' = IF pc.command = Lit.set
                         THEN Insert(setInfo, to_bytes(pc.args[1]),
                                     Data(pc.args[2], now, SetTtl(pc.args)))
                         ELSE setInfo
    /\ UNCHANGED <<lreq, lq, winner, lexp>>
    /\ UNCHANGED <<now, replicaof, last, expiredSeen>>
    /\ UNCHANGED <<codecVars, connVars, replVars>>

\* resp_parser.write(result).await returns
LockWrite(t) ==
    /\ lpc[t] = "write"
    /\ lpc' = [lpc EXCEPT ![t] = "read"]
    /\ lreq' = [lreq EXCEPT ![t] = NoValue]
    /\ lres' = [lres EXCEPT ![t] = NoValue]
    /\ lexp' = [lexp EXCEPT ![t] = None]
    /\ UNCHANGED <<lock, lq, winner>>
    /\ UNCHANGED <<storageVars, codecVars, connVars, replVars>>

\* the client is gone: the read returns 0 bytes or the write fails, and the
\* unwrap panics
LockDisconnect(t) ==
    /\ lpc[t] \in {"read", "write"}
    /\ lpc' = [lpc EXCEPT ![t] = "panicked"]
    /\ lreq' = [lreq EXCEPT ![t] = NoValue]
    /\ lres' = [lres EXCEPT ![t] = NoValue]
    /\ lexp' = [lexp EXCEPT ![t] = None]
    /\ UNCHANGED <<lock, lq, winner>>
    /\ UNCHANGED <<storageVars, codecVars, connVars, replVars>>

\* a millisecond passes
LockTick ==
    /\ now + TicksPerMs <= MaxTime
    /\ now' = now + TicksPerMs
    /\ UNCHANGED <<data, replicaof, last, setInfo, expiredSeen>>
    /\ UNCHANGED <<codecVars, connVars, replVars, lockVars>>

InitLock ==
    /\ StorageInit
    /\ replicaof = None
    /\ CodecIdle
    /\ ConnInit
    /\ ReplIdle
    /\ LockIdle

NextLock ==
    \/ \E t \in Tasks, value \in LockRequests : LockRecv(t, value)
    \/ \E t \in Tasks : LockAcquire(t)
    \/ \E t \in Tasks : LockOperate(t)
    \/ \E t \in Tasks : LockWrite(t)
    \/ \E t \in Tasks : LockDisconnect(t)
    \/ LockTick

\* the runtime runs a task that can take the lock or that holds it; a client
\* may stall, so no read or write of the socket is required to happen
LockFairness ==
    \A t \in Tasks : WF_vars(LockAcquire(t)) /\ WF_vars(LockOperate(t))

SpecLock == InitLock /\ [][NextLock]_vars /\ LockFairness

(***************************************************************************)
(* Claims about the shared keyspace (checked under SpecLock).              *)
(***************************************************************************)
\* the task has executed a GET with a key and holds its reply
GetDone(t) ==
    /\ lpc[t] = "write"
    /\ parse_command(lreq[t]).command = Lit.get

\* C12: when no task holds the lock, every entry of the keyspace is the value
\* and TTL of the SET that took the lock last on its key, an entry without TTL
\* is present, and every GET replies the value of the latest SET that took the
\* lock before it, or null if there was none or (with a TTL) it has expired.
C12_LastLockHolderWins ==
    /\ lock = "free" =>
          /\ \A k \in DOMAIN data :
                /\ k \in DOMAIN winner
                /\ data[k].value = winner[k].value
                /\ data[k].expiry = winner[k].expiry
          /\ \A k \in DOMAIN winner : winner[k].expiry = None => k \in DOMAIN data
    /\ \A t \in Tasks :
          GetDone(t) =>
             IF lexp[t] = None THEN lres[t] = BulkString(None)
             ELSE \/ lres[t] = Unwrap(lexp[t]).value
                  \/ IsSome(Unwrap(lexp[t]).expiry) /\ lres[t] = BulkString(None)

\* a SET of x has taken the lock, a SET of y on another connection has taken it
\* before the first was answered, and a GET has then read y under the lock
C12_Witness ==
    /\ lock = "free"
    /\ lq = <<>>
    /\ \E t \in Tasks :
          /\ GetDone(t)
          /\ lexp[t] # None
          /\ lres[t] = B(<<"y">>)
          /\ \E u \in Tasks \ {t} :
                lpc[u] = "write" /\ lreq[u] = Cmd(<<Lit.SET, <<"a">>, <<"x">>>>)

\* what a GET of key k at clock reading t is to reply: the value of the latest
\* SET of k, or null when k was never set or the truncated milliseconds elapsed
\* since that SET exceed its TTL
ExpectedGet(k, t) ==
    IF k \notin DOMAIN setInfo THEN BulkString(None)
    ELSE IF IsSome(setInfo[k].expiry)
            /\ as_millis(t - setInfo[k].created) > Unwrap(setInfo[k].expiry)
    THEN BulkString(None)
    ELSE setInfo[k].value

\* the task runs a GET with a key under the lock
GetStep(t) ==
    /\ lpc[t] = "locked"
    /\ parse_command(lreq[t]).command = Lit.get
    /\ parse_command(lreq[t]).args # <<>>

\* C15: GET k replies exactly the value of the latest SET of k, and the null
\* bulk when k was never set or its entry has expired; a key set without TTL
\* is never reported missing.
C15_GetRepliesLatestSet ==
    [][\A t \in Tasks :
          (GetStep(t) /\ lpc'[t] # "locked") =>
              /\ lpc'[t] = "write"
              /\ lres'[t] = ExpectedGet(to_bytes(parse_command(lreq[t]).args[1]), now)]_vars

\* one GET has been answered null for a key whose TTL had run out, and after a
\* new SET a GET of another connection has been answered with the new value
C15_Witness ==
    \E t \in Tasks, u \in Tasks :
        /\ GetDone(t) /\ GetDone(u)
        /\ lres[t] = BulkString(None) /\ lexp[t] # None
        /\ lres[u] = B(<<"y">>)
        /\ to_bytes(B(<<"a">>)) \in DOMAIN setInfo
        /\ setInfo[to_bytes(B(<<"a">>))].value = B(<<"y">>)

\* C18: at most one task at a time is between taking the lock and dropping it
\* (where Storage::set and Storage::get, with its check-then-delete, run), and
\* that task owns the guard.
C18_MutualExclusion ==
    /\ Cardinality({t \in Tasks : lpc[t] = "locked"}) <= 1
    /\ \A t \in Tasks : lpc[t] = "locked" => lock = t

\* one task holds the lock for its GET while another waits for it with a SET
C18_Witness ==
    \E t \in Tasks, u \in Tasks :
        /\ lpc[t] = "locked" /\ parse_command(lreq[t]).command = Lit.get
        /\ lpc[u] = "wait" /\ parse_command(lreq[u]).command = Lit.set
        /\ lq = <<u>>

\* the task waits on its socket, or has ended
AtSocketOrEnded(t) == lpc[t] \in {"read", "write", "panicked"}

\* C19: a task that waits on its socket or has panicked does not own the guard,
\* and a task that waits for the lock eventually gets through its SET or GET
\* (to the reply, or to the panic of a GET without key), whatever the clients
\* of the other tasks do.
C19_NoLockAcrossIO ==
    /\ [](\A t \in Tasks : AtSocketOrEnded(t) => lock # t)
    /\ \A t \in Tasks : (lpc[t] = "wait") ~> (lpc[t] \in {"write", "panicked"})

\* a GET without key has panicked under the guard, and the other task has
\* taken the lock after it
C19_Witness ==
    \E t \in Tasks, u \in Tasks :
        /\ lpc[t] = "panicked" /\ lreq[t] = Cmd(<<Lit.GET>>)
        /\ lpc[u] = "locked" /\ lock = u

====
